---- MODULE Spec2Model ----
(***************************************************************************)
(* Model of diarizer_service/diarize.py: load_audio_mono_16k, slice_frames, *)
(* frames_to_segments and main.                                             *)
(*                                                                          *)
(* Durations and times are rationals [num, den].  Every denominator used    *)
(* is a power of two times a power of ten small enough that the Python      *)
(* float arithmetic of the program is exact on them.                        *)
(* Labels are tagged values: [kind |-> "int", val |-> n] for the integer    *)
(* cluster ids and [kind |-> "str", val |-> s] for their string form.       *)
(***************************************************************************)
EXTENDS Integers, Sequences, FiniteSets, TLC

VARIABLES
    pc,               \* position of the run / of the function harness
    file_channels,    \* channel count of the input WAV
    file_sr,          \* sample rate of the input WAV
    file_len,         \* samples per channel of the input WAV
    max_speakers,     \* args.max_speakers
    mixed,            \* TRUE when load_audio_mono_16k averaged the channels
    audio_len,        \* len(audio) after loading
    sr,               \* sample rate handed to slice_frames
    frame_sec,        \* frame duration, a rational
    hop_sec,          \* hop duration, a rational
    frames,           \* list of sample slices [lo, hi)
    times,            \* list of (startSec, endSec)
    n_emb,            \* number of embeddings appended so far
    n_clusters,       \* n_clusters of main (0 before it is computed)
    clustering_run,   \* TRUE once AgglomerativeClustering.fit_predict ran
    labels,           \* label per frame
    speaker_segments, \* result of frames_to_segments
    resegments,       \* frames_to_segments applied to its own result
    writes,           \* number of times the output file was written
    output,           \* the speakerSegments list written
    error             \* "none" or the exception that ended the run

vars == <<pc, file_channels, file_sr, file_len, max_speakers, mixed, audio_len,
          sr, frame_sec, hop_sec, frames, times, n_emb, n_clusters,
          clustering_run, labels, speaker_segments, resegments, writes,
          output, error>>

(***************************************************************************)
(* Bounds                                                                   *)
(***************************************************************************)
MaxHops == 5          \* signal lengths go up to about MaxHops hops
MaxSpeakers == 3      \* largest --max_speakers tried
MaxN == 3             \* longest label sequence handed to frames_to_segments
MaxLabel == 2         \* labels 0..MaxLabel-1 handed to frames_to_segments
MaxTimeNum == 3       \* frame times n/16 s, n in 0..MaxTimeNum
MaxAudio == 6         \* longest signal handed to slice_frames alone
MaxQuarters == 5      \* durations q/4 s, q in 0..MaxQuarters
MaxRate == 3          \* sample rates 1..MaxRate handed to slice_frames alone

(***************************************************************************)
(* Arithmetic helpers                                                       *)
(***************************************************************************)
Rat(n, d) == [num |-> n, den |-> d]

Min(a, b) == IF a < b THEN a ELSE b

\* n/d rounded to the nearest integer, ties to the even one (Python round)
RoundHalfEven(n, d) ==
    LET q == n \div d
        r == n % d
    IN  IF 2 * r < d THEN q
        ELSE IF 2 * r > d THEN q + 1
        ELSE IF q % 2 = 0 THEN q ELSE q + 1

\* round(x, 3): the nearest multiple of 1/1000
Round3(x) == Rat(RoundHalfEven(x.num * 1000, x.den), 1000)

\* round(sec * rate)
RoundOfProduct(sec, rate) == RoundHalfEven(sec.num * rate, sec.den)

\* int(sec * rate) for non-negative operands
IntOfProduct(sec, rate) == (sec.num * rate) \div sec.den

RatEq(a, b) == a.num * b.den = b.num * a.den
RatLess(a, b) == a.num * b.den < b.num * a.den
RatLeq(a, b) == a.num * b.den <= b.num * a.den

Digit == <<"0", "1", "2", "3", "4", "5", "6", "7", "8", "9">>

RECURSIVE Dec(_)
Dec(n) == IF n < 10 THEN Digit[n + 1] ELSE Dec(n \div 10) \o Digit[(n % 10) + 1]

IntLabel(n) == [kind |-> "int", val |-> n]

\* str(label)
Str(x) == IF x.kind = "str" THEN x ELSE [kind |-> "str", val |-> Dec(x.val)]

(***************************************************************************)
(* slice_frames                                                             *)
(***************************************************************************)
RECURSIVE SliceLoop(_, _, _, _, _, _, _, _)
SliceLoop(start, stop, hop_len, frame_len, len, rate, fs, ts) ==
    IF start >= stop THEN [err |-> FALSE, frames |-> fs, times |-> ts]
    ELSE LET end == start + frame_len
         IN  SliceLoop(start + hop_len, stop, hop_len, frame_len, len, rate,
                       Append(fs, [lo |-> Min(start, len), hi |-> Min(end, len)]),
                       Append(ts, <<Rat(start, rate), Rat(end, rate)>>))

SliceFrames(len, rate, fsec, hsec) ==
    LET frame_len == IntOfProduct(fsec, rate)
        hop_len == IntOfProduct(hsec, rate)
    IN  IF len < frame_len THEN [err |-> FALSE, frames |-> <<>>, times |-> <<>>]
        ELSE IF hop_len = 0 THEN [err |-> TRUE, frames |-> <<>>, times |-> <<>>]
        ELSE SliceLoop(0, len - frame_len + 1, hop_len, frame_len, len, rate,
                       <<>>, <<>>)

(***************************************************************************)
(* frames_to_segments                                                       *)
(***************************************************************************)
Segment(seg_start, seg_end, cur_label) ==
    [start |-> Round3(seg_start), end |-> Round3(seg_end), label |-> Str(cur_label)]

\* the emitted segment labelled with the new frame's label
RECURSIVE MergeLoopStale(_, _, _, _, _, _, _)
MergeLoopStale(i, ls, ts, cur_label, seg_start, seg_end, segments) ==
    IF i > Len(ls) THEN Append(segments, Segment(seg_start, seg_end, cur_label))
    ELSE IF ls[i] = cur_label
         THEN MergeLoopStale(i + 1, ls, ts, cur_label, seg_start, ts[i][2], segments)
         ELSE MergeLoopStale(i + 1, ls, ts, ls[i], ts[i][1], ts[i][2],
                             Append(segments, Segment(seg_start, seg_end, ls[i])))

\* the same-label branch forgetting to extend seg_end
RECURSIVE MergeLoopNoExtend(_, _, _, _, _, _, _)
MergeLoopNoExtend(i, ls, ts, cur_label, seg_start, seg_end, segments) ==
    IF i > Len(ls) THEN Append(segments, Segment(seg_start, seg_end, cur_label))
    ELSE IF ls[i] = cur_label
         THEN MergeLoopNoExtend(i + 1, ls, ts, cur_label, seg_start, seg_end, segments)
         ELSE MergeLoopNoExtend(i + 1, ls, ts, ls[i], ts[i][1], ts[i][2],
                                Append(segments, Segment(seg_start, seg_end, cur_label)))

RECURSIVE MergeLoop(_, _, _, _, _, _, _)
MergeLoop(i, ls, ts, cur_label, seg_start, seg_end, segments) ==
    IF i > Len(ls) THEN Append(segments, Segment(seg_start, seg_end, cur_label))
    ELSE IF ls[i] = cur_label
         THEN MergeLoop(i + 1, ls, ts, cur_label, seg_start, ts[i][2], segments)
         ELSE MergeLoop(i + 1, ls, ts, ls[i], ts[i][1], ts[i][2],
                        Append(segments, Segment(seg_start, seg_end, cur_label)))

FramesToSegments(ls, ts) ==
    MergeLoop(2, ls, ts, ls[1], ts[1][1], ts[1][2], <<>>)

(***************************************************************************)
(* main                                                                     *)
(***************************************************************************)
ExpectedRate == 16000
FrameSec == Rat(3, 2)
HopSec == Rat(3, 4)
SampleRates == {8000, 16000, 44100}

FrameLen == IntOfProduct(FrameSec, ExpectedRate)
HopLen == IntOfProduct(HopSec, ExpectedRate)

\* signal lengths around every multiple of the hop length
SignalLengths == {k * HopLen + d : k \in 0..MaxHops, d \in {0, 1, HopLen - 1}}

\* max in place of min
NClustersMax(k, n) == IF k > n THEN k ELSE n

\* n_clusters = min(args.max_speakers, len(embeddings)), floored at 1
NClusters(k, n) == IF Min(k, n) < 1 THEN 1 ELSE Min(k, n)

\* np.arange(n) in place of np.zeros
Arange(n) == [i \in 1..n |-> IntLabel(i - 1)]

\* np.zeros((n,), dtype=int)
Zeros(n) == [i \in 1..n |-> IntLabel(0)]

\* the guard written with 1 in place of 2
NoEmbeddings(n) == n < 1

\* embeddings.shape[0] < 2
TooFewEmbeddings(n) == n < 2

\* results of fit_predict: n labels that use every id of 0..k-1
FitPredict(n, k) ==
    {[i \in 1..n |-> IntLabel(f[i])] :
        f \in {g \in [1..n -> 0..(k - 1)] : {g[i] : i \in 1..n} = 0..(k - 1)}}

InitMain ==
    /\ pc = "load"
    /\ file_channels \in 1..2
    /\ file_sr \in SampleRates
    /\ file_len \in SignalLengths
    /\ max_speakers \in 0..MaxSpeakers
    /\ mixed = FALSE
    /\ audio_len = 0
    /\ sr = 0
    /\ frame_sec = FrameSec
    /\ hop_sec = HopSec
    /\ frames = <<>>
    /\ times = <<>>
    /\ n_emb = 0
    /\ n_clusters = 0
    /\ clustering_run = FALSE
    /\ labels = <<>>
    /\ speaker_segments = <<>>
    /\ resegments = <<>>
    /\ writes = 0
    /\ output = <<>>
    /\ error = "none"

\* load_audio_mono_16k rejecting a file with more than one channel
LoadAudioMonoOnly ==
    /\ pc = "load"
    /\ file_sr = ExpectedRate
    /\ mixed' = FALSE
    /\ audio_len' = IF file_channels > 1 THEN audio_len ELSE file_len
    /\ sr' = IF file_channels > 1 THEN sr ELSE file_sr
    /\ error' = IF file_channels > 1 THEN "ValueError" ELSE error
    /\ pc' = IF file_channels > 1 THEN "aborted" ELSE "slice"
    /\ UNCHANGED <<file_channels, file_sr, file_len, max_speakers, frame_sec,
                   hop_sec, frames, times, n_emb, n_clusters, clustering_run,
                   labels, speaker_segments, resegments, writes, output>>

\* load_audio_mono_16k on a file at the expected rate
LoadAudio ==
    /\ pc = "load"
    /\ file_sr = ExpectedRate
    /\ mixed' = (file_channels > 1)
    /\ audio_len' = file_len
    /\ sr' = file_sr
    /\ pc' = "slice"
    /\ UNCHANGED <<file_channels, file_sr, file_len, max_speakers, frame_sec,
                   hop_sec, frames, times, n_emb, n_clusters, clustering_run,
                   labels, speaker_segments, resegments, writes, output, error>>

\* load_audio_mono_16k on a file at any other rate: ValueError
LoadAudioWrongRate ==
    /\ pc = "load"
    /\ file_sr # ExpectedRate
    /\ mixed' = (file_channels > 1)
    /\ error' = "ValueError"
    /\ pc' = "aborted"
    /\ UNCHANGED <<file_channels, file_sr, file_len, max_speakers, audio_len,
                   sr, frame_sec, hop_sec, frames, times, n_emb, n_clusters,
                   clustering_run, labels, speaker_segments, resegments,
                   writes, output>>

\* frames, times = slice_frames(audio, sr, frame_sec, hop_sec)
Slice ==
    /\ pc = "slice"
    /\ LET r == SliceFrames(audio_len, sr, frame_sec, hop_sec)
       IN  /\ frames' = r.frames
           /\ times' = r.times
           /\ error' = IF r.err THEN "ValueError" ELSE error
           /\ pc' = IF r.err THEN "aborted" ELSE "sliced"
    /\ UNCHANGED <<file_channels, file_sr, file_len, max_speakers, mixed,
                   audio_len, sr, frame_sec, hop_sec, n_emb, n_clusters,
                   clustering_run, labels, speaker_segments, resegments,
                   writes, output>>

\* the empty-frames branch without its return
WriteEmptyNoFramesNoReturn ==
    /\ pc = "sliced"
    /\ Len(frames) = 0
    /\ output' = <<>>
    /\ writes' = writes + 1
    /\ pc' = "embed"
    /\ UNCHANGED <<file_channels, file_sr, file_len, max_speakers, mixed,
                   audio_len, sr, frame_sec, hop_sec, frames, times, n_emb,
                   n_clusters, clustering_run, labels, speaker_segments,
                   resegments, error>>

\* if len(frames) == 0: write the empty list and return
WriteEmptyNoFrames ==
    /\ pc = "sliced"
    /\ Len(frames) = 0
    /\ output' = <<>>
    /\ writes' = writes + 1
    /\ pc' = "done"
    /\ UNCHANGED <<file_channels, file_sr, file_len, max_speakers, mixed,
                   audio_len, sr, frame_sec, hop_sec, frames, times, n_emb,
                   n_clusters, clustering_run, labels, speaker_segments,
                   resegments, error>>

\* EncoderClassifier.from_hparams succeeds
LoadClassifier ==
    /\ pc = "sliced"
    /\ Len(frames) # 0
    /\ pc' = "embed"
    /\ UNCHANGED <<file_channels, file_sr, file_len, max_speakers, mixed,
                   audio_len, sr, frame_sec, hop_sec, frames, times, n_emb,
                   n_clusters, clustering_run, labels, speaker_segments,
                   resegments, writes, output, error>>

\* EncoderClassifier.from_hparams raises
LoadClassifierFails ==
    /\ pc = "sliced"
    /\ Len(frames) # 0
    /\ error' = "ExtractorError"
    /\ pc' = "aborted"
    /\ UNCHANGED <<file_channels, file_sr, file_len, max_speakers, mixed,
                   audio_len, sr, frame_sec, hop_sec, frames, times, n_emb,
                   n_clusters, clustering_run, labels, speaker_segments,
                   resegments, writes, output>>

\* one iteration of "for frame in frames": encode_batch succeeds
EmbedFrame ==
    /\ pc = "embed"
    /\ n_emb < Len(frames)
    /\ n_emb' = n_emb + 1
    /\ UNCHANGED <<pc, file_channels, file_sr, file_len, max_speakers, mixed,
                   audio_len, sr, frame_sec, hop_sec, frames, times,
                   n_clusters, clustering_run, labels, speaker_segments,
                   resegments, writes, output, error>>

\* a failing encode_batch caught, an empty result written before giving up
EmbedFrameFailsDegraded ==
    /\ pc = "embed"
    /\ n_emb < Len(frames)
    /\ error' = "ExtractorError"
    /\ output' = <<>>
    /\ writes' = writes + 1
    /\ pc' = "aborted"
    /\ UNCHANGED <<file_channels, file_sr, file_len, max_speakers, mixed,
                   audio_len, sr, frame_sec, hop_sec, frames, times, n_emb,
                   n_clusters, clustering_run, labels, speaker_segments,
                   resegments>>

\* one iteration of "for frame in frames": encode_batch raises
EmbedFrameFails ==
    /\ pc = "embed"
    /\ n_emb < Len(frames)
    /\ error' = "ExtractorError"
    /\ pc' = "aborted"
    /\ UNCHANGED <<file_channels, file_sr, file_len, max_speakers, mixed,
                   audio_len, sr, frame_sec, hop_sec, frames, times, n_emb,
                   n_clusters, clustering_run, labels, speaker_segments,
                   resegments, writes, output>>

\* embeddings = np.stack(embeddings, axis=0)
Stack ==
    /\ pc = "embed"
    /\ n_emb = Len(frames)
    /\ pc' = "stacked"
    /\ UNCHANGED <<file_channels, file_sr, file_len, max_speakers, mixed,
                   audio_len, sr, frame_sec, hop_sec, frames, times, n_emb,
                   n_clusters, clustering_run, labels, speaker_segments,
                   resegments, writes, output, error>>

\* if embeddings.shape[0] < 2: write the empty list and return
WriteEmptyFewEmbeddings ==
    /\ pc = "stacked"
    /\ TooFewEmbeddings(n_emb)
    /\ output' = <<>>
    /\ writes' = writes + 1
    /\ pc' = "done"
    /\ UNCHANGED <<file_channels, file_sr, file_len, max_speakers, mixed,
                   audio_len, sr, frame_sec, hop_sec, frames, times, n_emb,
                   n_clusters, clustering_run, labels, speaker_segments,
                   resegments, error>>

\* n_clusters == 1: labels = np.zeros(...)
ClusterTrivial ==
    /\ pc = "stacked"
    /\ ~TooFewEmbeddings(n_emb)
    /\ NClusters(max_speakers, n_emb) = 1
    /\ n_clusters' = NClusters(max_speakers, n_emb)
    /\ labels' = Zeros(n_emb)
    /\ pc' = "clustered"
    /\ UNCHANGED <<file_channels, file_sr, file_len, max_speakers, mixed,
                   audio_len, sr, frame_sec, hop_sec, frames, times, n_emb,
                   clustering_run, speaker_segments, resegments, writes,
                   output, error>>

\* otherwise: labels = AgglomerativeClustering(n_clusters).fit_predict(...)
ClusterAgglomerative ==
    /\ pc = "stacked"
    /\ ~TooFewEmbeddings(n_emb)
    /\ NClusters(max_speakers, n_emb) # 1
    /\ n_clusters' = NClusters(max_speakers, n_emb)
    /\ clustering_run' = TRUE
    /\ labels' \in FitPredict(n_emb, NClusters(max_speakers, n_emb))
    /\ pc' = "clustered"
    /\ UNCHANGED <<file_channels, file_sr, file_len, max_speakers, mixed,
                   audio_len, sr, frame_sec, hop_sec, frames, times, n_emb,
                   speaker_segments, resegments, writes, output, error>>

\* speaker_segments = frames_to_segments(labels, times)
Merge ==
    /\ pc = "clustered"
    /\ speaker_segments' = FramesToSegments(labels, times)
    /\ pc' = "merged"
    /\ UNCHANGED <<file_channels, file_sr, file_len, max_speakers, mixed,
                   audio_len, sr, frame_sec, hop_sec, frames, times, n_emb,
                   n_clusters, clustering_run, labels, resegments, writes,
                   output, error>>

\* json.dump({"speakerSegments": speaker_segments}, f)
WriteOutput ==
    /\ pc = "merged"
    /\ output' = speaker_segments
    /\ writes' = writes + 1
    /\ pc' = "done"
    /\ UNCHANGED <<file_channels, file_sr, file_len, max_speakers, mixed,
                   audio_len, sr, frame_sec, hop_sec, frames, times, n_emb,
                   n_clusters, clustering_run, labels, speaker_segments,
                   resegments, error>>

Next ==
    \/ LoadAudio
    \/ LoadAudioWrongRate
    \/ Slice
    \/ WriteEmptyNoFrames
    \/ LoadClassifier
    \/ LoadClassifierFails
    \/ EmbedFrame
    \/ EmbedFrameFails
    \/ Stack
    \/ WriteEmptyFewEmbeddings
    \/ ClusterTrivial
    \/ ClusterAgglomerative
    \/ Merge
    \/ WriteOutput

Spec == InitMain /\ [][Next]_vars

(***************************************************************************)
(* slice_frames on its own, over bounded arguments                          *)
(***************************************************************************)
Durations == {Rat(q, 4) : q \in 0..MaxQuarters}

InitSlice ==
    /\ pc = "slice_call"
    /\ audio_len \in 0..MaxAudio
    /\ sr \in 1..MaxRate
    /\ frame_sec \in Durations
    /\ hop_sec \in Durations
    /\ file_channels = 1
    /\ file_sr = sr
    /\ file_len = audio_len
    /\ max_speakers = 0
    /\ mixed = FALSE
    /\ frames = <<>>
    /\ times = <<>>
    /\ n_emb = 0
    /\ n_clusters = 0
    /\ clustering_run = FALSE
    /\ labels = <<>>
    /\ speaker_segments = <<>>
    /\ resegments = <<>>
    /\ writes = 0
    /\ output = <<>>
    /\ error = "none"

\* slice_frames returns (frames, times)
SliceFramesReturns ==
    /\ pc = "slice_call"
    /\ LET r == SliceFrames(audio_len, sr, frame_sec, hop_sec)
       IN  /\ ~r.err
           /\ frames' = r.frames
           /\ times' = r.times
    /\ pc' = "slice_returned"
    /\ UNCHANGED <<file_channels, file_sr, file_len, max_speakers, mixed,
                   audio_len, sr, frame_sec, hop_sec, n_emb, n_clusters,
                   clustering_run, labels, speaker_segments, resegments,
                   writes, output, error>>

\* slice_frames raises: range() with a zero step
SliceFramesRaises ==
    /\ pc = "slice_call"
    /\ SliceFrames(audio_len, sr, frame_sec, hop_sec).err
    /\ error' = "ValueError"
    /\ pc' = "slice_raised"
    /\ UNCHANGED <<file_channels, file_sr, file_len, max_speakers, mixed,
                   audio_len, sr, frame_sec, hop_sec, frames, times, n_emb,
                   n_clusters, clustering_run, labels, speaker_segments,
                   resegments, writes, output>>

NextSlice == SliceFramesReturns \/ SliceFramesRaises

SpecSlice == InitSlice /\ [][NextSlice]_vars

(***************************************************************************)
(* frames_to_segments on its own, over bounded arguments                    *)
(***************************************************************************)
TimeValues == {Rat(n, 16) : n \in 0..MaxTimeNum}
TimeRanges == {<<a, b>> : a \in TimeValues, b \in TimeValues}
FrameRanges == {t \in TimeRanges : RatLess(t[1], t[2])}
LabelValues == {IntLabel(n) : n \in 0..(MaxLabel - 1)}

InitMerge ==
    /\ pc = "merge_call"
    /\ \E n \in 1..MaxN :
          /\ labels \in [1..n -> LabelValues]
          /\ times \in [1..n -> FrameRanges]
    /\ file_channels = 1
    /\ file_sr = ExpectedRate
    /\ file_len = 0
    /\ max_speakers = 0
    /\ mixed = FALSE
    /\ audio_len = 0
    /\ sr = ExpectedRate
    /\ frame_sec = FrameSec
    /\ hop_sec = HopSec
    /\ frames = <<>>
    /\ n_emb = 0
    /\ n_clusters = 0
    /\ clustering_run = FALSE
    /\ speaker_segments = <<>>
    /\ resegments = <<>>
    /\ writes = 0
    /\ output = <<>>
    /\ error = "none"

\* segments = frames_to_segments(labels, times)
CallFramesToSegments ==
    /\ pc = "merge_call"
    /\ speaker_segments' = FramesToSegments(labels, times)
    /\ pc' = "merge_returned"
    /\ UNCHANGED <<file_channels, file_sr, file_len, max_speakers, mixed,
                   audio_len, sr, frame_sec, hop_sec, frames, times, n_emb,
                   n_clusters, clustering_run, labels, resegments, writes,
                   output, error>>

\* each segment as one frame: its label and its (start, end)
SegmentLabels(segs) == [i \in 1..Len(segs) |-> segs[i].label]
SegmentTimes(segs) == [i \in 1..Len(segs) |-> <<segs[i].start, segs[i].end>>]

\* frames_to_segments applied to its own result
CallFramesToSegmentsAgain ==
    /\ pc = "merge_returned"
    /\ resegments' = FramesToSegments(SegmentLabels(speaker_segments),
                                      SegmentTimes(speaker_segments))
    /\ pc' = "remerged"
    /\ UNCHANGED <<file_channels, file_sr, file_len, max_speakers, mixed,
                   audio_len, sr, frame_sec, hop_sec, frames, times, n_emb,
                   n_clusters, clustering_run, labels, speaker_segments,
                   writes, output, error>>

NextMerge == CallFramesToSegments \/ CallFramesToSegmentsAgain

SpecMerge == InitMerge /\ [][NextMerge]_vars

(***************************************************************************)
(* Properties                                                               *)
(***************************************************************************)
LabelSet(ls) == {ls[i] : i \in 1..Len(ls)}

SegmentRanges(segs) == {<<segs[i].start, segs[i].end>> : i \in 1..Len(segs)}
FrameTimeRanges(ts) == {ts[i] : i \in 1..Len(ts)}

\* p lies in some [start, end) of the ranges
Covered(p, ranges) == \E r \in ranges : RatLeq(r[1], p) /\ RatLess(p, r[2])

\* two unions of half-open ranges are equal iff they agree at every endpoint
SameUnion(ra, rb) ==
    \A p \in {r[1] : r \in ra \cup rb} \cup {r[2] : r \in ra \cup rb} :
        Covered(p, ra) <=> Covered(p, rb)

SortedByStart(segs) ==
    \A i \in 1..Len(segs) : \A j \in 1..Len(segs) :
        i < j => RatLeq(segs[i].start, segs[j].start)

NonOverlapping(segs) ==
    \A i \in 1..Len(segs) : \A j \in 1..Len(segs) :
        i < j => \/ RatLeq(segs[i].end, segs[j].start)
                 \/ RatLeq(segs[j].end, segs[i].start)

\* C1: every non-empty output of the pipeline is sorted by start time, is
\* pairwise non-overlapping, and covers exactly the union of the frames' ranges.
C1_SegmentListInvariant ==
    (pc = "done" /\ Len(frames) >= 2 /\ Len(output) > 0) =>
        /\ SortedByStart(output)
        /\ NonOverlapping(output)
        /\ SameUnion(SegmentRanges(output), FrameTimeRanges(times))

\* C2 as stated: a signal that yields exactly one frame gives exactly one
\* segment, spanning that frame's time range.
C2_OneFrameOneSegment ==
    (pc = "done" /\ Len(frames) = 1) =>
        /\ Len(output) = 1
        /\ RatEq(output[1].start, times[1][1])
        /\ RatEq(output[1].end, times[1][2])

\* C2 amended: a signal that yields exactly one frame gives an empty segment
\* list, written once, without error and without clustering.
C2_OneFrameEmptyOutput ==
    (pc = "done" /\ Len(frames) = 1) =>
        /\ output = <<>>
        /\ writes = 1
        /\ error = "none"
        /\ labels = <<>>

C2_Witness == pc = "done" /\ Len(frames) = 1 /\ n_emb = 1 /\ writes = 1

\* C3: a 16 kHz signal shorter than one frame yields no frames, never aborts,
\* never reaches the extractor, and ends with an empty segment list written.
C3_ShortSignalEmptyOutput ==
    (file_sr = ExpectedRate /\ file_len < FrameLen) =>
        /\ pc \in {"load", "slice", "sliced", "done"}
        /\ frames = <<>>
        /\ error = "none"
        /\ (pc = "done" => output = <<>> /\ writes = 1)

C3_Witness ==
    pc = "done" /\ file_len > 0 /\ file_len < FrameLen /\ writes = 1

\* C4 as stated: for N >= 1 embeddings and maxSpeakers K >= 1 the label set
\* has at most min(K, N) elements, and exactly one when N < 2 or K = 1.
C4_LabelSetCardinality ==
    (pc = "done" /\ n_emb >= 1 /\ n_emb = Len(frames) /\ max_speakers >= 1) =>
        /\ Cardinality(LabelSet(labels)) <= Min(max_speakers, n_emb)
        /\ (n_emb < 2 \/ max_speakers = 1) => Cardinality(LabelSet(labels)) = 1

\* C4 amended: for N >= 2 embeddings and maxSpeakers K >= 1 the label set has
\* at most min(K, N) elements, and exactly one when K = 1; for N = 1 no label
\* is assigned at all and the output is empty.
C4_LabelSetCardinalityFromTwo ==
    /\ (pc \in {"clustered", "merged", "done"} /\ n_emb >= 2 /\ max_speakers >= 1) =>
          /\ Len(labels) = n_emb
          /\ Cardinality(LabelSet(labels)) <= Min(max_speakers, n_emb)
          /\ Cardinality(LabelSet(labels)) >= 1
          /\ max_speakers = 1 => Cardinality(LabelSet(labels)) = 1
    /\ (pc = "done" /\ n_emb = 1) => labels = <<>> /\ output = <<>>

C4_Witness ==
    /\ pc = "clustered"
    /\ n_emb >= 3
    /\ max_speakers = 2
    /\ Cardinality(LabelSet(labels)) = 2

\* the frames the claim describes, for given frame and hop lengths
ExpectedCount(len, frame_len, hop_len) ==
    IF len >= frame_len THEN ((len - frame_len) \div hop_len) + 1 ELSE 0

ExpectedFrames(len, frame_len, hop_len) ==
    [i \in 1..ExpectedCount(len, frame_len, hop_len) |->
        [lo |-> (i - 1) * hop_len, hi |-> (i - 1) * hop_len + frame_len]]

ExpectedTimes(len, rate, frame_len, hop_len) ==
    [i \in 1..ExpectedCount(len, frame_len, hop_len) |->
        <<Rat((i - 1) * hop_len, rate), Rat((i - 1) * hop_len + frame_len, rate)>>]

\* C5 as stated: with frameLen = round(frameSec * sr), hopLen = round(hopSec * sr)
\* slice_frames returns the frames at 0, hopLen, 2*hopLen, ... that fit.
C5_SliceFramesRounded ==
    pc = "slice_returned" =>
        LET frame_len == RoundHalfEven(frame_sec.num * sr, frame_sec.den)
            hop_len == RoundHalfEven(hop_sec.num * sr, hop_sec.den)
        IN  /\ frames = ExpectedFrames(audio_len, frame_len, hop_len)
            /\ times = ExpectedTimes(audio_len, sr, frame_len, hop_len)

\* C5 amended: with frameLen = floor(frameSec * sr), hopLen = floor(hopSec * sr)
\* and hopLen >= 1, slice_frames returns exactly the frames at 0, hopLen,
\* 2*hopLen, ... with start + frameLen <= L, each of frameLen samples.
C5_SliceFramesTruncated ==
    LET frame_len == (frame_sec.num * sr) \div frame_sec.den
        hop_len == (hop_sec.num * sr) \div hop_sec.den
    IN  hop_len >= 1 =>
            /\ pc # "slice_raised"
            /\ pc = "slice_returned" =>
                  /\ frames = ExpectedFrames(audio_len, frame_len, hop_len)
                  /\ times = ExpectedTimes(audio_len, sr, frame_len, hop_len)
                  /\ \A i \in 1..Len(frames) :
                        /\ frames[i].hi - frames[i].lo = frame_len
                        /\ frames[i].hi <= audio_len
                        /\ i > 1 => frames[i].lo > frames[i - 1].lo

C5_Witness ==
    /\ pc = "slice_returned"
    /\ Len(frames) >= 2
    /\ frames[1].hi - frames[1].lo >= 1
    /\ 2 * ((frame_sec.num * sr) % frame_sec.den) > frame_sec.den
    /\ (hop_sec.num * sr) % hop_sec.den # 0

\* C6: frames_to_segments applied to its own result, each segment taken as one
\* frame, returns that result unchanged.
C6_MergeIdempotent ==
    pc = "remerged" => resegments = speaker_segments

C6_Witness ==
    /\ pc = "remerged"
    /\ Len(speaker_segments) >= 2
    /\ Len(speaker_segments) < Len(labels)
    /\ ~RatEq(speaker_segments[1].end, times[1][2])
    /\ \E i \in 1..Len(times) : ~RatEq(Round3(times[i][1]), times[i][1])

\* C7: the output is written at most once and only as the last step; a run
\* that aborted has written nothing; a non-empty result is written only after
\* every frame was embedded.
C7_NoPartialOutput ==
    /\ writes <= 1
    /\ writes = 1 => pc = "done"
    /\ pc = "aborted" => writes = 0 /\ output = <<>>
    /\ error # "none" => pc = "aborted"
    /\ (writes = 1 /\ Len(frames) > 0) => n_emb = Len(frames)
    /\ file_sr # ExpectedRate => writes = 0

C7_Witness ==
    /\ pc = "aborted"
    /\ error = "ExtractorError"
    /\ n_emb >= 1
    /\ n_emb < Len(frames)
    /\ writes = 0

\* C8 as stated: input with more than one channel never gets past loading.
C8_MultiChannelFailsFast ==
    file_channels > 1 => pc \in {"load", "aborted"} /\ frames = <<>>

\* C8 amended: input with more than one channel at 16000 Hz is averaged to one
\* channel by the loader and the run goes on as for mono input; only a sample
\* rate other than 16000 Hz fails the run, before any frame is sampled.
C8_MultiChannelMixedDown ==
    /\ (pc # "load" => mixed = (file_channels > 1))
    /\ (file_sr = ExpectedRate /\ pc # "load") =>
          /\ audio_len = file_len
          /\ error # "ValueError"
    /\ (file_sr # ExpectedRate /\ pc # "load") =>
          /\ pc = "aborted"
          /\ error = "ValueError"
          /\ frames = <<>>

C8_Witness ==
    /\ file_channels > 1
    /\ mixed
    /\ pc = "done"
    /\ Len(output) >= 2

\* C9: with maxSpeakers = 1 and at least two frames the output is one segment
\* from the first frame's start to the last frame's end, and clustering is
\* not run.
C9_OneSpeakerOneSegment ==
    (pc = "done" /\ max_speakers = 1 /\ Len(frames) >= 2) =>
        /\ Len(output) = 1
        /\ RatEq(output[1].start, times[1][1])
        /\ RatEq(output[1].end, times[Len(times)][2])
        /\ ~clustering_run

C9_Witness ==
    /\ pc = "done"
    /\ max_speakers = 1
    /\ Len(frames) >= 3
    /\ Len(output) = 1

\* the maximal runs of equal consecutive labels
RunStarts(ls) == {1} \cup {i \in 2..Len(ls) : ls[i] # ls[i - 1]}
RunFirst(ls, k) ==
    CHOOSE i \in RunStarts(ls) : Cardinality({j \in RunStarts(ls) : j <= i}) = k
RunLast(ls, k) ==
    IF k = Cardinality(RunStarts(ls)) THEN Len(ls) ELSE RunFirst(ls, k + 1) - 1

RunsShape(ls, segs) ==
    /\ Len(segs) = Cardinality(RunStarts(ls))
    /\ \A k \in 1..Len(segs) : segs[k].label.val = Dec(ls[RunFirst(ls, k)].val)
    /\ \A k \in 2..Len(segs) : segs[k].label # segs[k - 1].label

\* C10 as stated: one segment per maximal run, from the start time of the
\* run's first frame to the end time of its last frame.
C10_SegmentPerRunExact ==
    pc = "merge_returned" =>
        /\ RunsShape(labels, speaker_segments)
        /\ \A k \in 1..Len(speaker_segments) :
              /\ RatEq(speaker_segments[k].start, times[RunFirst(labels, k)][1])
              /\ RatEq(speaker_segments[k].end, times[RunLast(labels, k)][2])

\* C10 amended: one segment per maximal run, from the start time of the run's
\* first frame to the end time of its last frame, both rounded to 3 decimals.
C10_SegmentPerRunRounded ==
    pc = "merge_returned" =>
        /\ RunsShape(labels, speaker_segments)
        /\ \A k \in 1..Len(speaker_segments) :
              /\ speaker_segments[k].start.den = 1000
              /\ speaker_segments[k].end.den = 1000
              /\ speaker_segments[k].start.num =
                    RoundHalfEven(1000 * times[RunFirst(labels, k)][1].num,
                                  times[RunFirst(labels, k)][1].den)
              /\ speaker_segments[k].end.num =
                    RoundHalfEven(1000 * times[RunLast(labels, k)][2].num,
                                  times[RunLast(labels, k)][2].den)

C10_Witness ==
    /\ pc = "merge_returned"
    /\ Len(labels) = 3
    /\ Len(speaker_segments) = 2
    /\ labels[1] = labels[2]
    /\ ~RatEq(speaker_segments[1].end, times[2][2])

====
